---------------------------- MODULE Spec2Model ----------------------------
(***************************************************************************)
(* Model of the VQE notebook (VQE_qiskit_hydrogen_ionq_sim.ipynb).         *)
(*                                                                         *)
(* The notebook builds a QuantumInstance (noisy local simulator, 8192      *)
(* shots, measurement-error mitigation, cals_matrix_refresh_period=30),    *)
(* an SPSA(maxiter) optimizer, an EfficientSU2 variational form and runs   *)
(* ret = vqe.run(quantum_instance).  The behaviour of those calls is       *)
(* modelled step by step:                                                  *)
(*   - SPSA.optimize: a calibration stage of min(25, max(1, maxiter/5))    *)
(*     two-evaluation steps, then maxiter two-evaluation steps, then one   *)
(*     final evaluation at the last point;                                 *)
(*   - VQE._energy_evaluation: one QuantumInstance.execute per energy,     *)
(*     _eval_count incremented when the energy is returned;                *)
(*   - QuantumInstance.execute: the calibration matrix is (re)built inside *)
(*     the execution when no fitter is stored or the stored one is older   *)
(*     than the refresh period (minutes of wall clock); the mitigation     *)
(*     filter is applied to the results afterwards.                        *)
(* Real numbers are modelled on an integer grid; energies returned by the  *)
(* noisy executor are a nondeterministic choice.                           *)
(***************************************************************************)
EXTENDS Integers, Sequences, FiniteSets, TLC

(*************************** bounds of the model ***************************)
MaxIter == 2        \* largest maxiter handed to SPSA(maxiter=...)
NumParameters == 2  \* var_form.num_parameters explored (16 in the notebook)
MaxTicks == 2       \* the wall clock is explored for this many ticks
NumStates == 2      \* measured basis states of a counts table (2^qubits)
MaxShots == 2       \* largest shot count of a counts table
MaxQubits == 2      \* largest num_qubits of a variational form built
MaxReps == 1        \* largest reps of a variational form built
MaxTerms == 3       \* largest number of Pauli terms of an operator
MaxCircs == 2       \* largest number of circuits in the sampler's cache
MaxRows == 1        \* largest number of data rows of a sensor log
MaxLines == 2       \* largest number of lines of a sensor log file
MaxLineLen == 3     \* largest number of characters of a line

(**************************** program constants ****************************)
cals_matrix_refresh_period == 30   \* minutes
SecondsPerMinute == 60
MaxCalibrationSteps == 25
CalibrationDivisor == 5
LastAvg == 1
shots == 8192
\* SPSA gain parameters c0, c1, c4 on the integer grid
P0 == 4
P1 == 2
P4 == 0

\* granularity of the wall clock (seconds): two ticks exceed the refresh
\* period, one does not
TickSeconds == (cals_matrix_refresh_period * SecondsPerMinute) \div 2 + 1
MaxTime == MaxTicks * TickSeconds

\* energies the noisy executor may return (grid units)
Energies == {-8, 0}

Unset == [tag |-> "unset"]

Max(a, b) == IF a >= b THEN a ELSE b
Min(a, b) == IF a <= b THEN a ELSE b
Abs(a) == IF a >= 0 THEN a ELSE -a
MinOf(S) == CHOOSE m \in S : \A x \in S : m <= x

\* indices of the parameters theta[0..] of the variational form
ParamIdx == 1..NumParameters

\* delta = 2 * random.integers(2, size) - 1 : every +-1 vector
Deltas == [ParamIdx -> {-1, 1}]
Zeros == [i \in ParamIdx |-> 0]
VecAdd(u, v) == [i \in ParamIdx |-> u[i] + v[i]]
VecSub(u, v) == [i \in ParamIdx |-> u[i] - v[i]]
VecScale(c, v) == [i \in ParamIdx |-> c * v[i]]

\* num_steps_calibration = min(25, max(1, maxiter // 5))
NumStepsCalibration(n) == Min(MaxCalibrationSteps, Max(1, n \div CalibrationDivisor))

\* c_spsa = c1 / (k+1)^gamma, kept positive on the grid
CSpsa(kk) == Max(1, P1 \div (kk + 1))
\* a_spsa = a / (k+1+c4)^alpha, kept positive on the grid
ASpsa(a, kk) == Max(1, a \div (kk + 1 + P4))

VARIABLES
    pc,            \* position of vqe.run / SPSA.optimize
    maxiter,       \* SPSA(maxiter=...)
    k,             \* iteration index of the optimization loop
    calI,          \* iteration index of the calibration loop
    theta,         \* SPSA current parameters
    thetaBest,     \* SPSA theta_best
    delta,         \* perturbation of the step in progress
    costPlus,      \* cost_plus / obj_plus of the step in progress
    deltaObj,      \* calibration accumulator delta_obj (times stat)
    aParam,        \* self._parameters[0]
    evalPoint,     \* argument of the _energy_evaluation in progress
    eval_count,    \* VQE._eval_count
    ret,           \* result of vqe.run, Unset until it returns
    epc,           \* position inside QuantumInstance.execute
    calState,      \* stored measurement fitter: none / building / valid
    calTimestamp,  \* time the stored fitter was built
    now,           \* wall clock, seconds
    \* history variables, not read by the program
    nEvaluate,     \* _energy_evaluation invocations that returned
    nExec,         \* jobs submitted by execute
    calBuilds,     \* calibration matrices built
    energiesSeen,  \* energies returned so far
    lastEnergy,    \* energy returned by the latest evaluation
    lastPoint,     \* its argument
    stepPoints,    \* arguments of the evaluations of the step in progress
    stepsDone,     \* completed optimization steps (theta updates)
    checkAge,      \* age of the fitter seen by the latest refresh check
    checkHad,      \* whether a fitter was stored at that check
    buildsAtBegin, \* calBuilds when the execution in progress began
    \* the cell circ.assign_parameters(ret.optimal_parameters)
    apc,           \* "input", "bound" or "error"
    paramDict,     \* the {parameter: value} mapping handed in
    boundCirc,     \* the circuit returned: free parameters and bound values
    \* an operation examined on its own, on inputs drawn from bounded sets
    cellPc,        \* "idle", "input", "done", or the index of a loop
    cellIn,        \* its input
    cellOut        \* its output

vars == << pc, maxiter, k, calI, theta, thetaBest, delta, costPlus, deltaObj,
           aParam, evalPoint, eval_count, ret, epc, calState, calTimestamp,
           now, nEvaluate, nExec, calBuilds, energiesSeen, lastEnergy,
           lastPoint, stepPoints, stepsDone, checkAge, checkHad,
           buildsAtBegin, apc, paramDict, boundCirc, cellPc, cellIn,
           cellOut >>

driverVars == << pc, maxiter, k, calI, theta, thetaBest, delta, costPlus,
                 deltaObj, aParam, eval_count, ret, stepsDone >>
histVars == << nEvaluate, energiesSeen, lastEnergy, lastPoint, stepPoints >>
cellVars == << cellPc, cellIn, cellOut >>
assignVars == << apc, paramDict, boundCirc, cellVars >>

\* a circuit whose parameters are all free
Template == [free |-> ParamIdx, value |-> << >>]

InitRun ==
    /\ pc = "calib_plus"
    /\ k = 0
    /\ calI = 0
    /\ theta = Zeros
    /\ thetaBest = Zeros
    /\ delta = Zeros
    /\ costPlus = 0
    /\ deltaObj = 0
    /\ aParam = P0
    /\ evalPoint = Zeros
    /\ eval_count = 0
    /\ ret = Unset
    /\ epc = "idle"
    /\ calState = "none"
    /\ calTimestamp = 0
    /\ now = 0
    /\ nEvaluate = 0
    /\ nExec = 0
    /\ calBuilds = 0
    /\ energiesSeen = {}
    /\ lastEnergy = 0
    /\ lastPoint = Zeros
    /\ stepPoints = << >>
    /\ stepsDone = 0
    /\ checkAge = 0
    /\ checkHad = FALSE
    /\ buildsAtBegin = 0

InitCellIdle ==
    /\ cellPc = "idle"
    /\ cellIn = << >>
    /\ cellOut = << >>

Init ==
    /\ InitRun
    /\ maxiter \in 1..MaxIter
    /\ apc = "input"
    /\ paramDict = << >>
    /\ boundCirc = Template
    /\ InitCellIdle

(************************ QuantumInstance.execute **************************)

MaybeRefreshCalsMatrixSeconds(ts) ==
    (now - ts) > cals_matrix_refresh_period

\* maybe_refresh_cals_matrix: int(now - timestamp) / 60.0 > refresh period
MaybeRefreshCalsMatrix(ts) ==
    (now - ts) > cals_matrix_refresh_period * SecondsPerMinute

\* build_cals_matrix = maybe_refresh_cals_matrix(timestamp) or fitter is None
BuildCalsMatrix ==
    \/ calState = "none"
    \/ MaybeRefreshCalsMatrix(calTimestamp)

\* _energy_evaluation(point) entering execute: the refresh check is made and
\* the job (calibration circuits included when a build is due) is submitted
ExecBegin(point) ==
    /\ epc = "idle"
    /\ evalPoint' = point
    /\ checkAge' = now - calTimestamp
    /\ checkHad' = (calState = "valid")
    /\ buildsAtBegin' = calBuilds
    /\ calState' = IF BuildCalsMatrix THEN "building" ELSE calState
    /\ epc' = "run"
    /\ nExec' = nExec + 1
    /\ UNCHANGED << calTimestamp, now, calBuilds, assignVars >>

\* the job returned and a build was due: the fitter is built from the
\* calibration results and stored with the current time
ExecBuild ==
    /\ epc = "run"
    /\ calState = "building"
    /\ calState' = "valid"
    /\ calTimestamp' = now
    /\ calBuilds' = calBuilds + 1
    /\ epc' = "apply"
    /\ UNCHANGED << driverVars, histVars, evalPoint, now, nExec, checkAge,
                    checkHad, buildsAtBegin, assignVars >>

ExecRunUnguarded ==
    /\ epc = "run"
    /\ epc' = "apply"
    /\ UNCHANGED << driverVars, histVars, evalPoint, now, nExec, checkAge,
                    checkHad, buildsAtBegin, calState, calTimestamp, calBuilds,
                    assignVars >>

\* the job returned and the stored fitter is used as it is
ExecRun ==
    /\ epc = "run"
    /\ calState = "valid"
    /\ epc' = "apply"
    /\ UNCHANGED << driverVars, histVars, evalPoint, now, nExec, checkAge,
                    checkHad, buildsAtBegin, calState, calTimestamp, calBuilds,
                    assignVars >>

ExecFailReporting ==
    /\ epc = "run"
    /\ epc' = "idle"
    /\ pc' = "failed"
    /\ calState' = IF calState = "building" THEN "none" ELSE calState
    /\ ret' = [tag |-> "set",
               eigenvalue |-> IF energiesSeen = {} THEN 0
                              ELSE MinOf(energiesSeen),
               optimal_point |-> thetaBest,
               cost_function_evals |-> eval_count]
    /\ UNCHANGED << maxiter, k, calI, theta, thetaBest, delta, costPlus,
                    deltaObj, aParam, eval_count, stepsDone, histVars,
                    evalPoint, now, nExec, checkAge, checkHad, buildsAtBegin,
                    calTimestamp, calBuilds, assignVars >>

\* the job raised: the exception leaves execute, _energy_evaluation,
\* SPSA.optimize and vqe.run; ret is never assigned
ExecFail ==
    /\ epc = "run"
    /\ epc' = "idle"
    /\ pc' = "failed"
    /\ calState' = IF calState = "building" THEN "none" ELSE calState
    /\ UNCHANGED << maxiter, k, calI, theta, thetaBest, delta, costPlus,
                    deltaObj, aParam, eval_count, ret, stepsDone, histVars,
                    evalPoint, now, nExec, checkAge, checkHad, buildsAtBegin,
                    calTimestamp, calBuilds, assignVars >>

\* the mitigation filter has been applied and the energy e is returned:
\* self._eval_count += len(means)
EvalReturnBy(e, n) ==
    /\ epc = "apply"
    /\ epc' = "idle"
    /\ eval_count' = eval_count + n
    /\ nEvaluate' = nEvaluate + 1
    /\ lastEnergy' = e
    /\ lastPoint' = evalPoint
    /\ energiesSeen' = energiesSeen \cup {e}
    /\ stepPoints' = Append(stepPoints, evalPoint)
    /\ UNCHANGED << evalPoint, calState, calTimestamp, now, nExec, calBuilds,
                    checkAge, checkHad, buildsAtBegin, assignVars >>

EvalReturnPerCircuit(e) == EvalReturnBy(e, 2)
EvalReturn(e) == EvalReturnBy(e, 1)

\* the wall clock advances while the run is in progress
Tick ==
    /\ pc \notin {"done", "failed"}
    /\ now + TickSeconds <= MaxTime
    /\ now' = now + TickSeconds
    /\ UNCHANGED << driverVars, histVars, evalPoint, epc, calState,
                    calTimestamp, nExec, calBuilds, checkAge, checkHad,
                    buildsAtBegin, assignVars >>

(****************************** SPSA._calibration ***************************)

\* obj_plus = obj_fun(initial_theta + initial_c * delta), delta drawn afresh
CalibPlusBegin ==
    /\ pc = "calib_plus"
    /\ \E d \in Deltas :
          /\ delta' = d
          /\ ExecBegin(VecAdd(theta, VecScale(P1, d)))
    /\ stepPoints' = << >>
    /\ UNCHANGED << pc, maxiter, k, calI, theta, thetaBest, costPlus,
                    deltaObj, aParam, eval_count, ret, stepsDone, nEvaluate,
                    energiesSeen, lastEnergy, lastPoint >>

CalibPlusReturn ==
    /\ pc = "calib_plus"
    /\ \E e \in Energies :
          /\ EvalReturn(e)
          /\ costPlus' = e
    /\ pc' = "calib_minus"
    /\ UNCHANGED << maxiter, k, calI, theta, thetaBest, delta, deltaObj,
                    aParam, ret, stepsDone >>

\* obj_minus = obj_fun(initial_theta - initial_c * delta)
CalibMinusBegin ==
    /\ pc = "calib_minus"
    /\ ExecBegin(VecSub(theta, VecScale(P1, delta)))
    /\ UNCHANGED << driverVars, histVars >>

\* delta_obj += |obj_plus - obj_minus| / stat; after the last calibration
\* step: if delta_obj > 0, parameters[0] = target * 2 / delta_obj * c1 * (c4+1)
CalibMinusReturn ==
    /\ pc = "calib_minus"
    /\ \E e \in Energies :
          /\ EvalReturn(e)
          /\ LET sum == deltaObj + Abs(costPlus - e)
                 stat == NumStepsCalibration(maxiter)
             IN  /\ deltaObj' = sum
                 /\ calI' = calI + 1
                 /\ IF calI + 1 < stat
                       THEN /\ pc' = "calib_plus"
                            /\ aParam' = aParam
                       ELSE /\ pc' = "step_plus"
                            /\ aParam' = IF sum > 0
                                           THEN (P0 * 2 * P1 * (P4 + 1) * stat) \div sum
                                           ELSE aParam
    /\ UNCHANGED << maxiter, k, theta, thetaBest, delta, costPlus, ret,
                    stepsDone >>

(***************************** SPSA._optimization ***************************)

\* for k in range(maxiter)
LoopContinuesInclusive(kk, n) == kk <= n
LoopContinues(kk, n) == kk < n

\* for k in range(maxiter): delta drawn, cost_plus = obj_fun(theta + c*delta)
StepPlusBegin ==
    /\ pc = "step_plus"
    /\ LoopContinues(k, maxiter)
    /\ \E d \in Deltas :
          /\ delta' = d
          /\ ExecBegin(VecAdd(theta, VecScale(CSpsa(k), d)))
    /\ stepPoints' = << >>
    /\ UNCHANGED << pc, maxiter, k, calI, theta, thetaBest, costPlus,
                    deltaObj, aParam, eval_count, ret, stepsDone, nEvaluate,
                    energiesSeen, lastEnergy, lastPoint >>

StepPlusReturn ==
    /\ pc = "step_plus"
    /\ \E e \in Energies :
          /\ EvalReturn(e)
          /\ costPlus' = e
    /\ pc' = "step_minus"
    /\ UNCHANGED << maxiter, k, calI, theta, thetaBest, delta, deltaObj,
                    aParam, ret, stepsDone >>

StepMinusBeginSamePoint ==
    /\ pc = "step_minus"
    /\ ExecBegin(VecAdd(theta, VecScale(CSpsa(k), delta)))
    /\ UNCHANGED << driverVars, histVars >>

\* cost_minus = obj_fun(theta - c*delta)
StepMinusBegin ==
    /\ pc = "step_minus"
    /\ ExecBegin(VecSub(theta, VecScale(CSpsa(k), delta)))
    /\ UNCHANGED << driverVars, histVars >>

\* g_spsa = (cost_plus - cost_minus) * delta / (2 * c_spsa)
GSpsa(cp, cm, d, c) == [i \in ParamIdx |-> ((cp - cm) * d[i]) \div (2 * c)]

\* theta = theta - a_spsa * g_spsa;
\* if k >= maxiter - last_avg: theta_best += theta / last_avg
StepMinusReturn ==
    /\ pc = "step_minus"
    /\ \E e \in Energies :
          /\ EvalReturn(e)
          /\ LET g == GSpsa(costPlus, e, delta, CSpsa(k))
                 t == VecSub(theta, VecScale(ASpsa(aParam, k), g))
             IN  /\ theta' = t
                 /\ thetaBest' = IF k >= maxiter - LastAvg
                                   THEN [i \in ParamIdx |->
                                           thetaBest[i] + (t[i] \div LastAvg)]
                                   ELSE thetaBest
    /\ k' = k + 1
    /\ stepsDone' = stepsDone + 1
    /\ pc' = IF LoopContinues(k + 1, maxiter) THEN "step_plus" ELSE "final"
    /\ UNCHANGED << maxiter, calI, delta, costPlus, deltaObj, aParam, ret >>

\* the energy SPSA returns with theta_best: cost_final, the value of the
\* final evaluation
FinalEnergyBestSeen(e) == MinOf(energiesSeen \cup {e})
FinalEnergy(e) == e

\* cost_final = obj_fun(theta_best)
FinalBegin ==
    /\ pc = "final"
    /\ ExecBegin(thetaBest)
    /\ stepPoints' = << >>
    /\ UNCHANGED << driverVars, nEvaluate, energiesSeen, lastEnergy,
                    lastPoint >>

\* SPSA returns (theta_best, cost_final); vqe.run stores them as
\* optimal_point and eigenvalue with cost_function_evals = _eval_count
FinalReturn ==
    /\ pc = "final"
    /\ \E e \in Energies :
          /\ EvalReturn(e)
          /\ ret' = [tag |-> "set", eigenvalue |-> FinalEnergy(e),
                     optimal_point |-> thetaBest,
                     cost_function_evals |-> eval_count + 1]
    /\ pc' = "done"
    /\ UNCHANGED << maxiter, k, calI, theta, thetaBest, delta, costPlus,
                    deltaObj, aParam, stepsDone >>

Next ==
    \/ CalibPlusBegin \/ CalibPlusReturn \/ CalibMinusBegin \/ CalibMinusReturn
    \/ StepPlusBegin \/ StepPlusReturn \/ StepMinusBegin \/ StepMinusReturn
    \/ FinalBegin \/ FinalReturn
    \/ ExecBuild \/ ExecRun \/ ExecFail \/ Tick

Spec == Init /\ [][Next]_vars

(************************ circ.assign_parameters ****************************)

\* keys a mapping may hold: the circuit's parameters and one Parameter that
\* is not in the circuit
ForeignKey == NumParameters + 1
Keys == ParamIdx \cup {ForeignKey}
Vals == 1..3
ParamDicts == UNION { [D -> Vals] : D \in SUBSET Keys }

ParamsNotInCircuitOrMissing(m) ==
    { key \in DOMAIN m : key \notin ParamIdx } \cup (ParamIdx \ DOMAIN m)

\* assign_parameters(param_dict): a key that is not a parameter of the
\* circuit raises CircuitError; otherwise exactly the named parameters are
\* bound and the others stay free
ParamsNotInCircuit(m) == { key \in DOMAIN m : key \notin ParamIdx }
Bind(circ, m) ==
    [free |-> circ.free \ DOMAIN m,
     value |-> [i \in (ParamIdx \ circ.free) \cup (DOMAIN m) |->
                  IF i \in DOMAIN m THEN m[i] ELSE circ.value[i]]]

AssignParameters ==
    /\ apc = "input"
    /\ IF ParamsNotInCircuit(paramDict) # {}
          THEN /\ apc' = "error"
               /\ boundCirc' = boundCirc
          ELSE /\ apc' = "bound"
               /\ boundCirc' = Bind(Template, paramDict)
    /\ UNCHANGED << paramDict, driverVars, histVars, evalPoint, epc, calState,
                    calTimestamp, now, nExec, calBuilds, checkAge, checkHad,
                    buildsAtBegin, cellVars >>

InitAssign ==
    /\ InitRun
    /\ maxiter = 1
    /\ apc = "input"
    /\ paramDict \in ParamDicts
    /\ boundCirc = Template
    /\ InitCellIdle

NextAssign == AssignParameters

SpecAssign == InitAssign /\ [][NextAssign]_vars

\* everything but the operation examined on its own stays as constructed
InitOthers ==
    /\ InitRun
    /\ maxiter = 1
    /\ apc = "input"
    /\ paramDict = << >>
    /\ boundCirc = Template

othersVars == << driverVars, histVars, evalPoint, epc, calState, calTimestamp,
                now, nExec, calBuilds, checkAge, checkHad, buildsAtBegin, apc,
                paramDict, boundCirc >>

(******************* measurement filter (CompleteMeasFitter) ****************)

StateIdx == 1..NumStates
CalEntries == {0, 1}

RECURSIVE SumTo(_, _)
SumTo(f, n) == IF n = 0 THEN 0 ELSE f[n] + SumTo(f, n - 1)
\* nshots = sum(raw_data)
Shots(c) == SumTo(c, NumStates)

\* counts tables of at least one and at most MaxShots shots
CountsTables ==
    { c \in [StateIdx -> 0..MaxShots] : Shots(c) >= 1 /\ Shots(c) <= MaxShots }
CalMatrices == [StateIdx \X StateIdx -> CalEntries]
IdentityCal == [p \in StateIdx \X StateIdx |-> IF p[1] = p[2] THEN 1 ELSE 0]

\* np.dot(cal_matrix, x)[i]
Dot(cal, x, i) == SumTo([j \in StateIdx |-> cal[<<i, j>>] * x[j]], NumStates)

FunWithoutData(raw, cal, x) ==
    SumTo([i \in StateIdx |-> Dot(cal, x, i) * Dot(cal, x, i)], NumStates)

\* fun(x) = sum((raw_data - np.dot(cal_matrix, x))**2)
Fun(raw, cal, x) ==
    SumTo([i \in StateIdx |->
             (raw[i] - Dot(cal, x, i)) * (raw[i] - Dot(cal, x, i))], NumStates)

FeasibleUnbounded(n) ==
    { x \in [StateIdx -> (0 - n)..(2 * n)] : Shots(x) = n }

\* bounds (0, nshots) for every entry, constraint nshots - sum(x) = 0
Feasible(n) == { x \in [StateIdx -> 0..n] : Shots(x) = n }

\* the results minimize(fun, x0, method='SLSQP', constraints, bounds) can
\* return: the feasible points of least fun (x0 is random)
Minimizers(raw, cal) ==
    { x \in Feasible(Shots(raw)) :
        \A y \in Feasible(Shots(raw)) : Fun(raw, cal, x) <= Fun(raw, cal, y) }

\* filter.apply(raw_data, method='least_squares')
FilterApply ==
    /\ cellPc = "input"
    /\ \E x \in Minimizers(cellIn.raw, cellIn.cal) : cellOut' = x
    /\ cellPc' = "done"
    /\ UNCHANGED << cellIn, othersVars >>

InitMitigate ==
    /\ InitOthers
    /\ cellPc = "input"
    /\ cellIn \in [raw : CountsTables, cal : CalMatrices]
    /\ cellOut = << >>

NextMitigate == FilterApply

SpecMitigate == InitMitigate /\ [][NextMitigate]_vars

(************************** EfficientSU2 (var_form) *************************)

Angles == {1, 2}
NoParam == 0 - 1

\* parameters theta[0 .. 2*num_qubits*(reps+1) - 1]
NumAnsatzParameters(q, reps) == 2 * q * (reps + 1)

\* rotation layer r: RY(theta[2*Q*r + j]) on every qubit j, then
\* RZ(theta[2*Q*r + Q + j]) on every qubit j
RotationLayer(q, r) ==
    [i \in 1..(2 * q) |->
        [gate |-> IF i <= q THEN "ry" ELSE "rz",
         qubit |-> IF i <= q THEN i - 1 ELSE i - q - 1,
         target |-> NoParam,
         param |-> 2 * q * r + i - 1]]

\* entanglement="linear": CX(j, j+1) for j = 0 .. Q-2
EntanglementLayer(q) ==
    [i \in 1..(q - 1) |->
        [gate |-> "cx", qubit |-> i - 1, target |-> i, param |-> NoParam]]

EntangleAfterEveryLayer(r, reps) == r <= reps
\* an entanglement layer follows every rotation layer but the last
EntangleAfter(r, reps) == r < reps

RECURSIVE LayersFrom(_, _, _)
LayersFrom(q, reps, r) ==
    IF r > reps THEN << >>
    ELSE RotationLayer(q, r)
         \o (IF EntangleAfter(r, reps) THEN EntanglementLayer(q) ELSE << >>)
         \o LayersFrom(q, reps, r + 1)

\* the gate sequence of EfficientSU2(q, reps=reps, entanglement="linear")
AnsatzGates(q, reps) == LayersFrom(q, reps, 0)

\* the gates with every theta[i] replaced by values[i + 1]
BindGates(gates, values) ==
    [i \in 1..Len(gates) |->
        [gate |-> gates[i].gate, qubit |-> gates[i].qubit,
         target |-> gates[i].target,
         angle |-> IF gates[i].param = NoParam THEN NoParam
                   ELSE values[gates[i].param + 1]]]

\* the notebook's variational form: two qubits, the default reps = 3
NotebookAnsatz ==
    [q |-> 2, reps |-> 3,
     values |-> [i \in 1..NumAnsatzParameters(2, 3) |-> 1]]

AnsatzInputs ==
    UNION { [q : {q}, reps : {r},
             values : [1..NumAnsatzParameters(q, r) -> Angles]] :
            <<q, r>> \in (1..MaxQubits) \X (0..MaxReps) }
    \cup {NotebookAnsatz}

\* var_form bound with a full parameter vector
AnsatzBuild ==
    /\ cellPc = "input"
    /\ cellOut' = BindGates(AnsatzGates(cellIn.q, cellIn.reps), cellIn.values)
    /\ cellPc' = "done"
    /\ UNCHANGED << cellIn, othersVars >>

InitAnsatz ==
    /\ InitOthers
    /\ cellPc = "input"
    /\ cellIn \in AnsatzInputs
    /\ cellOut = << >>

NextAnsatz == AnsatzBuild

SpecAnsatz == InitAnsatz /\ [][NextAnsatz]_vars

(****************** circuits of one _energy_evaluation **********************)

\* Pauli strings over the two qubits of the reduced operator
PauliStrings == [1..2 -> {"I", "X", "Z"}]
\* the terms of the two-qubit parity-reduced H2 operator
H2Terms == << <<"I", "I">>, <<"I", "Z">>, <<"Z", "I">>, <<"Z", "Z">>,
              <<"X", "X">> >>

\* operators: lists of distinct Pauli strings
Operators ==
    UNION { { op \in [1..n -> PauliStrings] :
                \A i, j \in 1..n : i # j => op[i] # op[j] } :
            n \in 1..MaxTerms }

\* two terms cannot be read from one measurement basis: on some qubit both
\* act and differ
Conflict(p, q) == \E i \in 1..2 : p[i] # "I" /\ q[i] # "I" /\ p[i] # q[i]

Degree(op, i) == Cardinality({ j \in 1..Len(op) : Conflict(op[i], op[j]) })

\* greedy colouring, strategy largest_first: position of term i in the order
Position(op, i) ==
    1 + Cardinality({ j \in 1..Len(op) :
                        \/ Degree(op, j) > Degree(op, i)
                        \/ (Degree(op, j) = Degree(op, i) /\ j < i) })
TermAt(op, n) == CHOOSE i \in 1..Len(op) : Position(op, i) = n

\* colours of the first n terms of the order: each term takes the least
\* colour no conflicting earlier term has
RECURSIVE Colouring(_, _)
Colouring(op, n) ==
    IF n = 0 THEN [i \in {} |-> 0]
    ELSE LET prev == Colouring(op, n - 1)
             t == TermAt(op, n)
             used == { prev[j] : j \in { j \in DOMAIN prev :
                                            Conflict(op[t], op[j]) } }
             c == CHOOSE c \in 0..n : c \notin used /\
                                      \A b \in 0..(c - 1) : b \in used
         IN  [i \in DOMAIN prev \cup {t} |-> IF i = t THEN c ELSE prev[i]]

\* the groups of terms measured together
GroupOf(op) == Colouring(op, Len(op))
NumGroups(op) == Cardinality({ GroupOf(op)[i] : i \in 1..Len(op) })

\* one circuit per group, each run for the configured shots
CircuitsPerTerm(op) ==
    [i \in 1..Len(op) |-> [group |-> GroupOf(op)[i], shots |-> shots]]
CircuitsOf(op) ==
    [c \in 1..NumGroups(op) |-> [group |-> c - 1, shots |-> shots]]

EvaluationCircuits ==
    /\ cellPc = "input"
    /\ cellOut' = [groups |-> GroupOf(cellIn), circuits |-> CircuitsOf(cellIn)]
    /\ cellPc' = "done"
    /\ UNCHANGED << cellIn, othersVars >>

InitEvaluate ==
    /\ InitOthers
    /\ cellPc = "input"
    /\ cellIn \in Operators \cup {H2Terms}
    /\ cellOut = << >>

NextEvaluate == EvaluationCircuits

SpecEvaluate == InitEvaluate /\ [][NextEvaluate]_vars

(********************* the energy that is reported *************************)

\* coefficients, measured term expectations and nuclear repulsion energy, on
\* an integer grid
TermIdx == 1..MaxTerms
Coefficients == {-1, 0, 2}
Expectations == {-1, 0, 1}
RepulsionEnergies == {0, 1}

\* the eigenvalue of the operator: the coefficient-weighted sum of the
\* term expectations; the operator carries no offset
EigenvalueWithOffset(in) ==
    in.offset + SumTo([t \in TermIdx |-> in.coeffs[t] * in.expect[t]], MaxTerms)
Eigenvalue(in) ==
    SumTo([t \in TermIdx |-> in.coeffs[t] * in.expect[t]], MaxTerms)

EnergyEvaluation ==
    /\ cellPc = "input"
    /\ cellOut' = [eigenvalue |-> Eigenvalue(cellIn)]
    /\ cellPc' = "evaluated"
    /\ UNCHANGED << cellIn, othersVars >>

\* vqe_result = eigenvalue + molecule.nuclear_repulsion_energy
AddRepulsionEnergy ==
    /\ cellPc = "evaluated"
    /\ cellOut' = [eigenvalue |-> cellOut.eigenvalue,
                   vqe_result |-> cellOut.eigenvalue + cellIn.offset]
    /\ cellPc' = "done"
    /\ UNCHANGED << cellIn, othersVars >>

InitEnergy ==
    /\ InitOthers
    /\ cellPc = "input"
    /\ cellIn \in [coeffs : [TermIdx -> Coefficients],
                    expect : [TermIdx -> Expectations],
                    offset : RepulsionEnergies]
    /\ cellOut = << >>

NextEnergy == EnergyEvaluation \/ AddRepulsionEnergy

SpecEnergy == InitEnergy /\ [][NextEnergy]_vars

(**************** a second driver after the first run **********************)

execVars == << calTimestamp, now, nExec, calBuilds, checkAge, checkHad,
               buildsAtBegin >>

\* optimizer = SPSA(maxiter=1); var_form = EfficientSU2(...);
\* vqe = VQE(qubit_op, var_form, optimizer=optimizer) on a QuantumInstance
\* built without measurement error mitigation; ret stays bound to the
\* result of the first run
NewVQESharing ==
    /\ pc \in {"done", "failed"}
    /\ epc = "idle"
    /\ pc' = "new"
    /\ maxiter' = 1
    /\ k' = 0
    /\ calI' = 0
    /\ theta' = Zeros
    /\ thetaBest' = Zeros
    /\ delta' = Zeros
    /\ costPlus' = 0
    /\ deltaObj' = 0
    /\ aParam' = P0
    /\ stepsDone' = 0
    /\ calState' = "none"
    /\ UNCHANGED << eval_count, ret, evalPoint, epc, histVars, execVars,
                    assignVars >>
NewVQE ==
    /\ pc \in {"done", "failed"}
    /\ epc = "idle"
    /\ pc' = "new"
    /\ maxiter' = 1
    /\ k' = 0
    /\ calI' = 0
    /\ theta' = Zeros
    /\ thetaBest' = Zeros
    /\ delta' = Zeros
    /\ costPlus' = 0
    /\ deltaObj' = 0
    /\ aParam' = P0
    /\ eval_count' = 0
    /\ stepsDone' = 0
    /\ calState' = "none"
    /\ UNCHANGED << ret, evalPoint, epc, histVars, execVars, assignVars >>

\* p0 = ret.optimal_point; vqe._energy_evaluation(parameters=p0): the job
\* is submitted; without a first result p0 is not defined
P0EvalBegin ==
    /\ pc = "new"
    /\ epc = "idle"
    /\ ret # Unset
    /\ evalPoint' = ret.optimal_point
    /\ epc' = "run_plain"
    /\ UNCHANGED << driverVars, histVars, calState, execVars, assignVars >>

\* the energy at p0 is returned: self._eval_count += len(means)
P0EvalReturn ==
    /\ epc = "run_plain"
    /\ \E e \in Energies : lastEnergy' = e
    /\ epc' = "idle"
    /\ pc' = "evaluated"
    /\ eval_count' = eval_count + 1
    /\ UNCHANGED << maxiter, k, calI, theta, thetaBest, delta, costPlus,
                    deltaObj, aParam, ret, stepsDone, nEvaluate, energiesSeen,
                    lastPoint, stepPoints, evalPoint, calState,
                    execVars, assignVars >>

\* the job raised
P0EvalFail ==
    /\ epc = "run_plain"
    /\ epc' = "idle"
    /\ pc' = "failed_second"
    /\ UNCHANGED << maxiter, k, calI, theta, thetaBest, delta, costPlus,
                    deltaObj, aParam, eval_count, ret, stepsDone, histVars,
                    evalPoint, calState, execVars, assignVars >>

NextTwo ==
    \/ CalibPlusBegin \/ CalibPlusReturn \/ CalibMinusBegin \/ CalibMinusReturn
    \/ StepPlusBegin \/ StepPlusReturn \/ StepMinusBegin \/ StepMinusReturn
    \/ FinalBegin \/ FinalReturn
    \/ ExecBuild \/ ExecRun \/ ExecFail
    \/ NewVQE \/ P0EvalBegin \/ P0EvalReturn \/ P0EvalFail

SpecTwo == Init /\ [][NextTwo]_vars

(*********************** the width / depth report **************************)

\* a transpiled circuit: qubits acted on, idle wires of the device, one
\* classical bit per measured qubit, depth, parameters bound or not
Circuits == [qubits : {1, 2}, idle : {0, 1}, depth : {12, 13},
             bound : {FALSE}]
CircuitLists == UNION { [1..n -> Circuits] : n \in 1..MaxCircs }

\* remove_idle_qwires: the wires no gate acts on are dropped
RemoveIdleQwires(c) == [c EXCEPT !.idle = 0]
\* assign_parameters(ret.optimal_parameters): a bound copy, same gates
AssignOptimal(c) == [c EXCEPT !.bound = TRUE]
\* circuit.width(): qubits and classical bits; circuit.depth()
Width(c) == (c.qubits + c.idle) + c.qubits
Depth(c) == c.depth

\* circs = [remove_idle_qwires(circ) for circ in circs]; circ = circs[0]
StripCircs ==
    /\ cellPc = "input"
    /\ LET stripped == [i \in DOMAIN cellIn |-> RemoveIdleQwires(cellIn[i])]
       IN  cellOut' = [circs |-> stripped, circ |-> stripped[1], i |-> 1,
                       rows |-> << >>]
    /\ cellPc' = "loop"
    /\ UNCHANGED << cellIn, othersVars >>

\* one pass of "for circuit in circs": the loop variable is overwritten by
\* circ.assign_parameters(...) before it is used
ReportRow ==
    /\ cellPc = "loop"
    /\ cellOut.i <= Len(cellOut.circs)
    /\ LET circuit == RemoveIdleQwires(AssignOptimal(cellOut.circ))
       IN  cellOut' = [cellOut EXCEPT
                          !.rows = Append(@, << Width(circuit), Depth(circuit) >>),
                          !.i = @ + 1]
    /\ UNCHANGED << cellPc, cellIn, othersVars >>

ReportEnd ==
    /\ cellPc = "loop"
    /\ cellOut.i > Len(cellOut.circs)
    /\ cellPc' = "done"
    /\ UNCHANGED << cellIn, cellOut, othersVars >>

InitReport ==
    /\ InitOthers
    /\ cellPc = "input"
    /\ cellIn \in CircuitLists
    /\ cellOut = << >>

NextReport == StripCircs \/ ReportRow \/ ReportEnd

SpecReport == InitReport /\ [][NextReport]_vars

(************* sensor log: are the velocity increments redundant ***********)

\* rates, increments and the sampling period on an integer grid
Axes == {"X", "Y", "Z"}
Accs == {0, 1}
VelIncs == {0, 1, 5}
Dts == {1, 2}
SensorRows == [Acc : [Axes -> Accs], VelInc : [Axes -> VelIncs]]
SensorLogs == UNION { [1..n -> SensorRows] : n \in 1..MaxRows }

MaxOf(S) == CHOOSE x \in S : \A y \in S : y <= x

\* np.abs(np.array(df['Acc_a'] * dt - df['VelInc_a']))
VelCheckArr(df, dt, a) ==
    [r \in 1..Len(df) |-> Abs(df[r].Acc[a] * dt - df[r].VelInc[a])]

\* max, mean (rounded down to the grid) and min of a check array
CheckStats(arr) ==
    [max |-> MaxOf({ arr[r] : r \in 1..Len(arr) }),
     mean |-> SumTo(arr, Len(arr)) \div Len(arr),
     min |-> MinOf({ arr[r] : r \in 1..Len(arr) })]

\* the cell prints the three statistics lines, then the verdict and a rule
VelocityCheck ==
    /\ cellPc = "input"
    /\ cellOut' =
          [checks |-> [a \in Axes |->
                          CheckStats(VelCheckArr(cellIn.df, cellIn.dt, a))],
           printed |-> << "vel_x_checks", "vel_y_checks", "vel_z_checks",
                          "Velocity increment data is redundant...",
                          "----------------------------------" >>]
    /\ cellPc' = "done"
    /\ UNCHANGED << cellIn, othersVars >>

InitSensor ==
    /\ InitOthers
    /\ cellPc = "input"
    /\ cellIn \in [df : SensorLogs, dt : Dts]
    /\ cellOut = << >>

NextSensor == VelocityCheck

SpecSensor == InitSensor /\ [][NextSensor]_vars

(****************** sensor log: where the data starts **********************)

\* lines as file.readlines() gives them: non-empty character sequences
Chars == {"/", "x"}
Lines == UNION { [1..n -> Chars] : n \in 1..MaxLineLen }
Files == UNION { [1..n -> Lines] : n \in 0..MaxLines }
CommentPrefix == << "/", "/" >>
\* Python's None
None == 0 - 1

\* line.startswith(prefix)
StartsWith(line, prefix) ==
    /\ Len(line) >= Len(prefix)
    /\ SubSeq(line, 1, Len(prefix)) = prefix

\* the line enumerate(data) yields with a 0-based index
LineAt(data, index) == data[index + 1]

\* data_start_index = None; the loop is entered
ScanBegin ==
    /\ cellPc = "input"
    /\ cellOut' = [index |-> 0, data_start_index |-> None]
    /\ cellPc' = "scan"
    /\ UNCHANGED << cellIn, othersVars >>

\* a line that starts with '//': the loop goes on
ScanSkip ==
    /\ cellPc = "scan"
    /\ cellOut.index < Len(cellIn)
    /\ StartsWith(LineAt(cellIn, cellOut.index), CommentPrefix)
    /\ cellOut' = [cellOut EXCEPT !.index = @ + 1]
    /\ UNCHANGED << cellPc, cellIn, othersVars >>

\* the value assigned at the first line that does not: data_start_index = index
IndexFoundOneBased(index) == index + 1
IndexFound(index) == index

\* ... and break
ScanFound ==
    /\ cellPc = "scan"
    /\ cellOut.index < Len(cellIn)
    /\ ~StartsWith(LineAt(cellIn, cellOut.index), CommentPrefix)
    /\ cellOut' = [cellOut EXCEPT !.data_start_index = IndexFound(cellOut.index)]
    /\ cellPc' = "done"
    /\ UNCHANGED << cellIn, othersVars >>

\* enumerate(data) is exhausted
ScanEnd ==
    /\ cellPc = "scan"
    /\ cellOut.index >= Len(cellIn)
    /\ cellPc' = "done"
    /\ UNCHANGED << cellIn, cellOut, othersVars >>

InitHeader ==
    /\ InitOthers
    /\ cellPc = "input"
    /\ cellIn \in Files
    /\ cellOut = << >>

NextHeader == ScanBegin \/ ScanSkip \/ ScanFound \/ ScanEnd

SpecHeader == InitHeader /\ [][NextHeader]_vars

TypeOK ==
    /\ pc \in {"calib_plus", "calib_minus", "step_plus", "step_minus",
               "final", "done", "failed"}
    /\ epc \in {"idle", "run", "apply"}
    /\ calState \in {"none", "building", "valid"}
    /\ k \in 0..maxiter
    /\ Len(stepPoints) <= 2

(******************************** properties *******************************)

RefreshSeconds == cals_matrix_refresh_period * SecondsPerMinute

\* C1 (as stated): when vqe.run has returned, the energy reported for the
\* reported point is the least energy any evaluation of the run returned.
C1_BestPointReturned ==
    pc = "done" => ret.eigenvalue = MinOf(energiesSeen)

\* C1 (amended): when vqe.run has returned, the reported energy is the one
\* returned by the last evaluation of the run, made at the optimizer's final
\* point, and the reported point is that final point.
C1_LastPointReturned ==
    pc = "done" =>
        /\ ret.eigenvalue = lastEnergy
        /\ ret.optimal_point = lastPoint
        /\ ret.optimal_point = theta

\* a completed run whose reported energy is above an energy seen earlier
C1_Witness ==
    /\ pc = "done"
    /\ ret.eigenvalue > MinOf(energiesSeen)

\* C2: when a run of N = maxiter iterations has returned, the reported count
\* equals the number of evaluations invoked, which is 2N plus the 2 per
\* calibration step and the final one made outside the loop (241 for N=100).
C2_EvaluationCount ==
    /\ pc = "done" =>
          /\ ret.cost_function_evals = nExec
          /\ nExec = 2 * stepsDone + (2 * calI + 1)
          /\ stepsDone = maxiter
          /\ calI = NumStepsCalibration(maxiter)
    /\ 2 * 100 + (2 * NumStepsCalibration(100) + 1) = 241

C2_Witness ==
    /\ pc = "done"
    /\ maxiter = MaxIter
    /\ ret.cost_function_evals = 2 * MaxIter + 3

\* C3: the optimization loop is left only after exactly maxiter steps, and no
\* step is begun or in progress with an iteration index of maxiter or more.
C3_ExactlyMaxiterSteps ==
    /\ pc \in {"final", "done"} => (stepsDone = maxiter /\ k = maxiter)
    /\ pc = "step_minus" => k < maxiter
    /\ (pc = "step_plus" /\ epc # "idle") => k < maxiter
    /\ stepsDone <= maxiter

C3_Witness ==
    /\ pc = "done"
    /\ maxiter = 1
    /\ stepsDone = 1

\* C4: a step is completed only by the return of its second evaluation; the
\* two evaluations of the step were made at theta + c_k*delta and
\* theta - c_k*delta for one +-1 vector delta, and theta changes only then.
C4_TwoEvaluationsPerStep ==
    [][ /\ (theta' # theta => stepsDone' = stepsDone + 1)
        /\ (stepsDone' # stepsDone =>
               /\ stepsDone' = stepsDone + 1
               /\ Len(stepPoints') = 2
               /\ nExec = nEvaluate'
               /\ \E d \in Deltas :
                     /\ stepPoints'[1] = VecAdd(theta, VecScale(CSpsa(k), d))
                     /\ stepPoints'[2] = VecSub(theta, VecScale(CSpsa(k), d)))
      ]_vars

C4_Witness ==
    /\ stepsDone >= 1
    /\ theta # Zeros
    /\ Len(stepPoints) = 2

AtIterationBoundary ==
    /\ epc = "idle"
    /\ pc \in {"calib_plus", "step_plus", "final", "done"}

\* C5 (as stated): a calibration matrix is rebuilt only at an outer-iteration
\* boundary, never while an evaluation is in progress.
C5_RebuildAtIterationBoundary ==
    [][ (calBuilds >= 1 /\ calBuilds' # calBuilds) => AtIterationBoundary ]_vars

\* C5 (amended): a calibration matrix is built only inside an execution, once,
\* and exactly when the refresh check of that execution found no stored
\* matrix or one built more than the refresh period (minutes of wall clock)
\* earlier; so the matrix an evaluation applies was at most that old when the
\* evaluation was dispatched, or was built during it.
C5_RebuildOnWallClockAge ==
    /\ [][ calBuilds' # calBuilds =>
             /\ epc = "run"
             /\ calBuilds' = calBuilds + 1
             /\ calBuilds = buildsAtBegin
             /\ calTimestamp' = now ]_vars
    /\ [](epc = "apply" =>
             IF checkHad /\ checkAge <= RefreshSeconds
               THEN calBuilds = buildsAtBegin
               ELSE calBuilds = buildsAtBegin + 1)

\* a matrix rebuilt within one optimization step, between its evaluations
C5_Witness ==
    /\ calBuilds >= 2
    /\ pc = "step_minus"
    /\ epc = "apply"
    /\ calBuilds = buildsAtBegin + 1

C10_MismatchAlwaysFails ==
    (apc # "input" /\ Cardinality(DOMAIN paramDict) # NumParameters) =>
        (apc = "error" /\ boundCirc = Template)

\* C10 (amended): assign_parameters fails, returning no circuit, exactly when
\* the mapping names a parameter that is not in the circuit; otherwise it
\* binds exactly the named parameters to the given values and leaves the
\* others free, so a mapping of fewer than L parameters does not fail, and no
\* value is dropped or invented.
C10_AssignBindsNamedParameters ==
    /\ apc = "error" =>
          /\ \E key \in DOMAIN paramDict : key \notin ParamIdx
          /\ boundCirc = Template
    /\ apc = "bound" =>
          /\ DOMAIN paramDict \subseteq ParamIdx
          /\ boundCirc.free = ParamIdx \ DOMAIN paramDict
          /\ DOMAIN boundCirc.value = DOMAIN paramDict
          /\ \A i \in DOMAIN paramDict : boundCirc.value[i] = paramDict[i]

\* a mapping shorter than L that was bound without failure
C10_Witness ==
    /\ apc = "bound"
    /\ Cardinality(DOMAIN paramDict) < NumParameters
    /\ boundCirc.free # {}

GatesNamed(gates, name) == { i \in 1..Len(gates) : gates[i].gate = name }
Rotations(gates) == GatesNamed(gates, "ry") \cup GatesNamed(gates, "rz")

\* C13: the circuit built for Q qubits and D = reps+1 rotation layers from a
\* vector of L = 2*Q*D values has no free parameter, uses each of the L values
\* on one rotation, has one RY and one RZ per qubit in each layer and an
\* entangling block of Q-1 gates after every layer but the last, whatever the
\* values; Q=2 with 4 rotation layers has 16 parameters and 3 entangling gates.
C13_AnsatzShape ==
    /\ cellPc = "done" =>
          LET q == cellIn.q
              d == cellIn.reps + 1
              out == cellOut
          IN  /\ Len(cellIn.values) = 2 * q * d
              /\ \A i \in Rotations(out) : out[i].angle \in Angles
              /\ Cardinality(Rotations(out)) = Len(cellIn.values)
              /\ \A j \in 0..(q - 1) :
                    /\ Cardinality({ i \in GatesNamed(out, "ry") :
                                       out[i].qubit = j }) = d
                    /\ Cardinality({ i \in GatesNamed(out, "rz") :
                                       out[i].qubit = j }) = d
              /\ Cardinality(GatesNamed(out, "cx")) = (q - 1) * (d - 1)
              /\ out[Len(out)].gate # "cx"
              /\ \A r \in 1..(d - 1) : \A j \in 1..(q - 1) :
                    out[(2 * q + q - 1) * (r - 1) + 2 * q + j].gate = "cx"
              /\ Len(out) = 2 * q * d + (q - 1) * (d - 1)
    /\ (cellPc = "done" /\ cellIn = NotebookAnsatz) =>
          /\ Cardinality(Rotations(cellOut)) = 16
          /\ Cardinality(GatesNamed(cellOut, "cx")) = 3

C13_Witness ==
    /\ cellPc = "done"
    /\ cellIn.q = MaxQubits
    /\ cellIn.reps = MaxReps
    /\ \E i, j \in Rotations(cellOut) : cellOut[i].angle # cellOut[j].angle

C15_OffsetOnce ==
    cellPc = "done" =>
        cellOut.vqe_result - cellIn.offset =
            SumTo([t \in TermIdx |-> cellIn.coeffs[t] * cellIn.expect[t]],
                  MaxTerms)

\* a reported energy with a non-zero repulsion energy and a non-zero sum
C15_Witness ==
    /\ cellPc = "done"
    /\ cellIn.offset # 0
    /\ cellOut.eigenvalue # 0
    /\ cellOut.vqe_result = cellOut.eigenvalue + cellIn.offset

C19_RowPerCircuit ==
    cellPc \in {"loop", "done"} =>
        /\ cellPc = "done" => Len(cellOut.rows) = Len(cellOut.circs)
        /\ \A i \in 1..Len(cellOut.rows) :
              cellOut.rows[i] =
                  << Width(RemoveIdleQwires(AssignOptimal(cellOut.circs[i]))),
                     Depth(RemoveIdleQwires(AssignOptimal(cellOut.circs[i]))) >>

\* C20 (as stated): the verdict 'Velocity increment data is redundant...' is
\* printed only when every difference |Acc*dt - VelInc| the cell computed is
\* within a tolerance (here one grid unit).
C20_VerdictOnlyWhenRedundant ==
    (/\ cellPc = "done"
     /\ \E n \in 1..Len(cellOut.printed) :
           cellOut.printed[n] = "Velocity increment data is redundant...")
        => \A a \in Axes : cellOut.checks[a].max <= 1

\* C21: after the header scan data_start_index is the least 0-based index of
\* a line that does not start with '//' (every line before it starts with
\* '//', the line at it does not), and it is None when every line starts with
\* '//' or the file has no line.
C21_FirstDataLine ==
    cellPc = "done" =>
        LET d == cellOut.data_start_index
            headers == { i \in 1..Len(cellIn) :
                           Len(cellIn[i]) >= 2 /\ cellIn[i][1] = "/"
                                               /\ cellIn[i][2] = "/" }
        IN  IF headers = 1..Len(cellIn)
            THEN d = None
            ELSE /\ d \in 0..(Len(cellIn) - 1)
                 /\ (d + 1) \notin headers
                 /\ \A i \in 1..d : i \in headers

\* a file with a header line before its first data line
C21_Witness ==
    /\ cellPc = "done"
    /\ Len(cellIn) >= 2
    /\ cellOut.data_start_index = 1

\* a file of header lines only: the index stays None
C21_WitnessNone ==
    /\ cellPc = "done"
    /\ Len(cellIn) >= 1
    /\ cellOut.data_start_index = None

=============================================================================
